---------------------------- MODULE Spec2Model ----------------------------
(***************************************************************************)
(* Cover generation for a course catalog: the single-item generator        *)
(* (scripts/generate_cover.py), the parallel batch orchestrator            *)
(* (scripts/fetch_and_generate_covers.py) and the sequential batch with    *)
(* its clean-invalid mode (scripts/batch_generate_covers.py).              *)
(*                                                                         *)
(* Optional values (Python's None / a value) are sequences of length 0     *)
(* or 1, so that every comparison stays between values of one shape.       *)
(***************************************************************************)
EXTENDS Integers, Sequences, FiniteSets, TLC

None == <<>>
Some(x) == <<x>>

(***************************************************************************)
(* Bounds of the model.                                                    *)
(***************************************************************************)
MaxRetriesBound == 3      \* max_retries is drawn from -1..MaxRetriesBound
MaxFail == 2              \* a stub raises on at most MaxFail leading calls

Courses == {"c1", "c2"}
Langs == {"en", "zh"}
Workers == {"w1", "w2"}
Procs == Workers \cup {"main"}
Colors == {1, 2}

\* The two fixed default references of get_freepik_image and the icon
\* URLs the search API can answer with.
DefaultEmpty == "default.png"
DefaultExhausted == "labex-icon-blue.png"
IconUrls == {"icon1.png"}
ResolverResults == IconUrls \cup {DefaultEmpty, DefaultExhausted}

VARIABLES
  \* ---- the world outside the processes
  catalog,      \* catalog API: course -> None (404) or Some(langs)
  stub,         \* per course: how many leading catalog / render calls raise
  metaLeft,     \* catalog calls of the course that will still raise
  renderLeft,   \* render calls of the course that will still raise
  api_key,      \* FREEPIK_API_KEY is set
  search,       \* icon-search API: what each request of one search meets
  cdn,          \* what a download of an icon meets: up, down, partial
  doc,          \* config/course-covers.json
  covers,       \* public/<lang>/<alias>.png: None or Some(render parameters)
  icons,        \* the files of assets/icons, as <<alias, extension>>
  clock,        \* datetime.now(), advanced by every reading
  \* ---- per process
  attr,         \* generate_cover.course_info, a function attribute
  gc,           \* the generate_cover call of the process, if any
  \* ---- process_batch
  inp,          \* its arguments
  pb,           \* its locals and position
  pool,         \* the multiprocessing.Pool of the current pass
  hist,         \* per course, the generator outcome of every dispatch
  \* ---- the sequential drivers, which call generate_cover in process "main"
  sq,           \* batch_generate_covers.main
  cli           \* generate_cover.main, run after run

vars == <<catalog, stub, metaLeft, renderLeft, api_key, search, cdn, doc, covers, icons,
          clock, attr, gc, inp, pb, pool, hist, sq, cli>>

envVars == <<catalog, stub, api_key, search, cdn>>
fsVars == <<doc, covers, icons, clock>>
batchVars == <<inp, pb, pool, hist>>
driverVars == <<batchVars, sq, cli>>

(***************************************************************************)
(* Values.                                                                 *)
(***************************************************************************)
IconPath(a, x) == <<"local", a, x>>     \* "./assets/icons/<alias>.<ext>"
LocalPath(a) == IconPath(a, "png")
IconFile(a, x) == <<a, x>>              \* assets/icons/<alias>.<ext>
RemoteRef(u) == <<"remote", u>>         \* an https URL

EmptyData == [c \in Courses |-> None]
MissingDoc == [exists |-> FALSE, valid |-> TRUE, data |-> EmptyData]
EmptyDoc == [exists |-> TRUE, valid |-> TRUE, data |-> EmptyData]

NoCovers == [k \in Langs \X Courses |-> None]

Append1(s, x) == s \o <<x>>
Range(s) == {s[i] : i \in DOMAIN s}

(***************************************************************************)
(* get_course_info: one GET of the catalog API.                            *)
(***************************************************************************)
\* What the request meets: a transport or HTTP error while the stub still
\* raises, else 404 for a course the catalog lacks, else 200.
CatalogAnswer(a, left) ==
  IF left > 0 THEN "error"
  ELSE IF catalog[a] = None THEN "404" ELSE "200"

\* A faulty variant of get_course_info, which raises on a 404 like on any
\* other HTTP error.
get_course_info_Raises404(a, l, answer) ==
  IF answer # "200"
  THEN [raised |-> TRUE, course_info |-> None, supported |-> FALSE]
  ELSE [raised |-> FALSE,
        course_info |-> Some([name |-> a, langs |-> catalog[a][1]]),
        supported |-> l \in catalog[a][1]]

\* A faulty variant of get_course_info, which logs a failed request and
\* answers as for a course that does not exist.
get_course_info_SwallowsErrors(a, l, answer) ==
  IF answer # "200"
  THEN [raised |-> FALSE, course_info |-> None, supported |-> FALSE]
  ELSE [raised |-> FALSE,
        course_info |-> Some([name |-> a, langs |-> catalog[a][1]]),
        supported |-> l \in catalog[a][1]]

get_course_info(a, l, answer) ==
  IF answer = "error"
  THEN [raised |-> TRUE, course_info |-> None, supported |-> FALSE]
  ELSE IF answer = "404"
  THEN [raised |-> FALSE, course_info |-> None, supported |-> FALSE]
  ELSE [raised |-> FALSE,
        course_info |-> Some([name |-> a, langs |-> catalog[a][1]]),
        supported |-> l \in catalog[a][1]]

(***************************************************************************)
(* The frame of a generate_cover call.                                     *)
(***************************************************************************)
IdleFrame ==
  [pc |-> "idle", alias |-> "", lang |-> "", overwrite |-> FALSE,
   course_info |-> None, course_config |-> None, freepik_url |-> "",
   existing_config |-> EmptyData, outcome |-> "", error |-> "",
   met |-> "", resolver |-> None, stored |-> None, lost |-> {}]

\* A call that has returned or raised keeps only what its caller reads,
\* and the ghosts met (what the catalog answered) and stored (the
\* configuration the call created and saved, if any).
Finished(f, how, outcome, error) ==
  [IdleFrame EXCEPT !.pc = how, !.alias = f.alias, !.lang = f.lang,
                    !.overwrite = f.overwrite, !.outcome = outcome,
                    !.error = error, !.met = f.met, !.stored = f.stored]

Returned(f, outcome) == Finished(f, "ret", outcome, "")
Raised(f, error) == Finished(f, "raise", "Failed", error)

\* A faulty variant of ResultOf, which returns False for a language the
\* course does not have.
ResultOf_UnsupportedFalse(outcome) ==
  outcome \in {"Rendered", "SkippedExisting"}

\* The value generate_cover returns for each outcome.
ResultOf(outcome) == outcome \in {"Rendered", "SkippedExisting",
                                  "SkippedUnsupportedLanguage"}

\* A faulty variant of SkipsExisting, with the overwrite test inverted.
SkipsExisting_WhenOverwrite(a, l, ow) == covers[<<l, a>>] # None /\ ow

SkipsExisting(a, l, ow) == covers[<<l, a>>] # None /\ ~ow

\* Entry of generate_cover: the existing-artifact check.
generate_cover_entry(a, l, ow) ==
  LET f == [IdleFrame EXCEPT !.alias = a, !.lang = l, !.overwrite = ow] IN
  IF SkipsExisting(a, l, ow)
  THEN Returned(f, "SkippedExisting")
  ELSE [f EXCEPT !.pc = "meta"]

\* A faulty variant of AfterInfo, which goes on to the configuration in
\* any language.
AfterInfo_IgnoresLanguage(f, info, supported) ==
  [f EXCEPT !.pc = "load", !.course_info = info]

\* What follows the course information, however it was obtained.
AfterInfo(f, info, supported) ==
  IF ~supported
  THEN Returned(f, "SkippedUnsupportedLanguage")
  ELSE [f EXCEPT !.pc = "load", !.course_info = info]

\* Course information: the function attribute when it is set, else the
\* catalog.
Meta(p) ==
  /\ gc[p].pc = "meta"
  /\ LET f == gc[p] IN
     IF attr[p] # None
     THEN /\ gc' = [gc EXCEPT
                 ![p] = AfterInfo([f EXCEPT !.met = "attr"], attr[p],
                                  f.lang \in attr[p][1].langs)]
          /\ attr' = [attr EXCEPT ![p] = None]
          /\ UNCHANGED metaLeft
     ELSE LET answer == CatalogAnswer(f.alias, metaLeft[f.alias])
              r == get_course_info(f.alias, f.lang, answer)
              g == [f EXCEPT !.met = answer] IN
          /\ metaLeft' = [metaLeft EXCEPT
                 ![f.alias] = IF @ > 0 THEN @ - 1 ELSE 0]
          /\ gc' = [gc EXCEPT ![p] =
                 IF r.raised THEN Raised(g, "catalog error")
                 ELSE IF r.course_info = None THEN Returned(g, "NotFound")
                 ELSE AfterInfo(g, r.course_info, r.supported)]
          /\ UNCHANGED attr
  /\ UNCHANGED <<envVars, fsVars, renderLeft, driverVars>>

\* A faulty variant of load_course_config, which takes what it can read
\* of a document that does not parse.
load_course_config_ReadsCorrupt(a) == doc.data[a]

\* What load_course_config answers once the document is known to exist.
load_course_config(a) ==
  IF ~doc.valid THEN None ELSE doc.data[a]

AfterLoad(f, cfg) ==
  IF cfg = None
  THEN [f EXCEPT !.pc = "freepik"]
  ELSE [f EXCEPT !.pc = "render", !.course_config = cfg]

\* load_course_config up to its read: the existence test, then the read.
Load(p) ==
  /\ gc[p].pc = "load"
  /\ LET f == gc[p] IN
     gc' = [gc EXCEPT ![p] =
              IF ~doc.exists THEN [f EXCEPT !.pc = "load_mk"]
              ELSE AfterLoad(f, load_course_config(f.alias))]
  /\ UNCHANGED <<envVars, fsVars, metaLeft, renderLeft, attr, driverVars>>

\* load_course_config found no document: it writes "{}" and answers None.
LoadCreate(p) ==
  /\ gc[p].pc = "load_mk"
  /\ doc' = EmptyDoc
  /\ gc' = [gc EXCEPT ![p] = AfterLoad(gc[p], None)]
  /\ UNCHANGED <<envVars, covers, icons, clock, metaLeft, renderLeft, attr,
                 driverVars>>

\* get_freepik_image behind its credential check: up to max_retries
\* requests, requests[i] being what the i-th one meets: "results" and
\* "empty" are answers with and without icons, "error" is anything that
\* raises inside the try block (transport error, HTTP error status, a body
\* that cannot be read).  A failed attempt that is not the last sleeps
\* retry_delay and doubles it.
ResolverMaxRetries == 3
ResolverRetryDelay == 1

\* A faulty variant of freepik_attempt, which sleeps the same delay after
\* every failed attempt.
RECURSIVE freepik_attempt_NoBackoff(_, _, _, _)
freepik_attempt_NoBackoff(requests, attempt, retry_delay, slept) ==
  LET met == requests[attempt + 1] IN
  IF met = "results"
  THEN [kind |-> "results", requests |-> attempt + 1, slept |-> slept]
  ELSE IF met = "empty"
  THEN [kind |-> "empty", requests |-> attempt + 1, slept |-> slept]
  ELSE IF attempt < ResolverMaxRetries - 1
  THEN freepik_attempt_NoBackoff(requests, attempt + 1, retry_delay,
                                 Append1(slept, retry_delay))
  ELSE [kind |-> "exhausted", requests |-> attempt + 1, slept |-> slept]

RECURSIVE freepik_attempt(_, _, _, _)
freepik_attempt(requests, attempt, retry_delay, slept) ==
  LET met == requests[attempt + 1] IN
  IF met = "results"
  THEN [kind |-> "results", requests |-> attempt + 1, slept |-> slept]
  ELSE IF met = "empty"
  THEN [kind |-> "empty", requests |-> attempt + 1, slept |-> slept]
  ELSE IF attempt < ResolverMaxRetries - 1
  THEN freepik_attempt(requests, attempt + 1, retry_delay * 2,
                       Append1(slept, retry_delay))
  ELSE [kind |-> "exhausted", requests |-> attempt + 1, slept |-> slept]

get_freepik_image(requests) ==
  freepik_attempt(requests, 0, ResolverRetryDelay, <<>>)

\* A faulty variant of FreepikUrls, with one default for both fallbacks.
FreepikUrls_OneDefault(kind) ==
  IF kind = "results" THEN IconUrls ELSE {DefaultExhausted}

\* The references a search that ended this way can return (random.choice
\* among the icons found).
FreepikUrls(kind) ==
  IF kind = "results" THEN IconUrls
  ELSE IF kind = "empty" THEN {DefaultEmpty}
  ELSE {DefaultExhausted}

\* References that start with "./": none of the resolver's does.
LocalRefs == {}
IsLocalRef(u) == u \in LocalRefs

NewConfig(image, color, now, u) ==
  [image_url |-> image, bg_color |-> color, created_at |-> now,
   remote_url |-> IF IsLocalRef(u) THEN None ELSE Some(u)]

\* The text after the last "." of a reference, in lower case.
Suffix(u) ==
  CASE u = "icon2.jpg" -> "jpg"
    [] u = "icon3.svg" -> "svg"
    [] OTHER -> "png"

ImageExts == {"png", "jpg", "jpeg"}

\* The extension of the icon file: that of the reference, "png" for any
\* other than png, jpg and jpeg.
Ext(u) == IF Suffix(u) \in ImageExts THEN Suffix(u) ELSE "png"

\* download_image: the file <alias>.<ext> is kept when there is one (have);
\* else the download, which may fail before or after the file is created.
\* requested is a ghost: whether the reference was requested.
download_image(u, a, have, net) ==
  IF have
  THEN [path |-> IconPath(a, Ext(u)), file |-> TRUE, requested |-> FALSE]
  ELSE IF net = "up"
  THEN [path |-> IconPath(a, Ext(u)), file |-> TRUE, requested |-> TRUE]
  ELSE IF net = "partial"
  THEN [path |-> RemoteRef(u), file |-> TRUE, requested |-> TRUE]
  ELSE [path |-> RemoteRef(u), file |-> FALSE, requested |-> TRUE]

\* A faulty variant of Resolve, in which the last failed icon request
\* raises instead of answering the default.
Resolve_PropagatesExhaustion(p) ==
  /\ gc[p].pc = "freepik"
  /\ LET f == gc[p] IN
     IF ~api_key \/ get_freepik_image(search).kind = "exhausted"
     THEN /\ gc' = [gc EXCEPT ![p] = Raised(f, "icon search failed")]
          /\ UNCHANGED <<icons, clock>>
     ELSE \E u \in FreepikUrls(get_freepik_image(search).kind),
             color \in Colors :
            LET d == download_image(u, f.alias,
                                    IconFile(f.alias, Ext(u)) \in icons, cdn)
            IN
            /\ icons' = IF d.file
                        THEN icons \cup {IconFile(f.alias, Ext(u))} ELSE icons
            /\ gc' = [gc EXCEPT ![p] =
                        [f EXCEPT !.pc = "save",
                                  !.freepik_url = u,
                                  !.resolver = Some(get_freepik_image(search)),
                                  !.course_config =
                                     Some(NewConfig(d.path, color, clock, u))]]
            /\ clock' = clock + 1
  /\ UNCHANGED <<envVars, doc, covers, metaLeft, renderLeft, attr, driverVars>>

\* A course without configuration: get_freepik_image, download_image,
\* then the new configuration is built.  resolver is a ghost: what the
\* icon search did (its requests and its sleeps).
Resolve(p) ==
  /\ gc[p].pc = "freepik"
  /\ LET f == gc[p] IN
     IF ~api_key
     THEN /\ gc' = [gc EXCEPT ![p] = Raised(f, "no api key")]
          /\ UNCHANGED <<icons, clock>>
     ELSE \E u \in FreepikUrls(get_freepik_image(search).kind),
             color \in Colors :
            LET d == download_image(u, f.alias,
                                    IconFile(f.alias, Ext(u)) \in icons, cdn)
            IN
            /\ icons' = IF d.file
                        THEN icons \cup {IconFile(f.alias, Ext(u))} ELSE icons
            /\ gc' = [gc EXCEPT ![p] =
                        [f EXCEPT !.pc = "save",
                                  !.freepik_url = u,
                                  !.resolver = Some(get_freepik_image(search)),
                                  !.course_config =
                                     Some(NewConfig(d.path, color, clock, u))]]
            /\ clock' = clock + 1
  /\ UNCHANGED <<envVars, doc, covers, metaLeft, renderLeft, attr, driverVars>>

\* save_course_config, its read: the whole document as it is now.
Save(p) ==
  /\ gc[p].pc = "save"
  /\ LET f == gc[p] IN
     gc' = [gc EXCEPT ![p] =
              IF doc.exists /\ ~doc.valid
              THEN [f EXCEPT !.pc = "render"]
              ELSE [f EXCEPT !.pc = "save_wr",
                             !.existing_config =
                                IF doc.exists THEN doc.data ELSE EmptyData]]
  /\ UNCHANGED <<envVars, fsVars, metaLeft, renderLeft, attr, driverVars>>

\* A faulty variant of save_course_config, which updates the document as
\* it is at the time of the write.
save_course_config_Merges(existing, a, cfg) ==
  [exists |-> TRUE, valid |-> TRUE, data |-> [doc.data EXCEPT ![a] = cfg]]

\* A faulty variant of save_course_config, which writes its own key only.
save_course_config_OnlyOwn(existing, a, cfg) ==
  [exists |-> TRUE, valid |-> TRUE, data |-> [EmptyData EXCEPT ![a] = cfg]]

\* The document save_course_config writes back.
save_course_config(existing, a, cfg) ==
  [exists |-> TRUE, valid |-> TRUE, data |-> [existing EXCEPT ![a] = cfg]]

\* The keys of other courses that are in the document now and were not in
\* the document the save read.
AddedSinceRead(f) ==
  {b \in Courses \ {f.alias} :
     /\ doc.exists /\ doc.valid /\ doc.data[b] # None
     /\ f.existing_config[b] = None}

\* save_course_config, its write.  stored and lost are ghosts: the
\* configuration the call saved, and the keys its write dropped.
SaveWrite(p) ==
  /\ gc[p].pc = "save_wr"
  /\ LET f == gc[p] IN
     /\ doc' = save_course_config(f.existing_config, f.alias, f.course_config)
     /\ gc' = [gc EXCEPT ![p] = [f EXCEPT !.pc = "render",
                                          !.existing_config = EmptyData,
                                          !.stored = f.course_config,
                                          !.lost = AddedSinceRead(f)]]
  /\ UNCHANGED <<envVars, covers, icons, clock, metaLeft, renderLeft, attr,
                 driverVars>>

\* The parameters handed to the template.
RenderParams(f) ==
  [image_url |-> f.course_config[1].image_url,
   bg_color |-> f.course_config[1].bg_color,
   lang |-> f.lang]

Render(p) ==
  /\ gc[p].pc = "render"
  /\ LET f == gc[p] IN
     IF renderLeft[f.alias] > 0
     THEN /\ renderLeft' = [renderLeft EXCEPT ![f.alias] = @ - 1]
          /\ gc' = [gc EXCEPT ![p] = Raised(f, "render error")]
          /\ UNCHANGED covers
     ELSE /\ covers' = [covers EXCEPT
                 ![<<f.lang, f.alias>>] = Some(RenderParams(f))]
          /\ gc' = [gc EXCEPT ![p] = Returned(f, "Rendered")]
          /\ UNCHANGED renderLeft
  /\ UNCHANGED <<envVars, doc, icons, clock, metaLeft, attr, driverVars>>


\* A call of generate_cover that has ended.
Ended(p) == gc[p].pc \in {"ret", "raise"}

GenSteps(p) ==
  \/ Meta(p) \/ Load(p) \/ LoadCreate(p) \/ Resolve(p)
  \/ Save(p) \/ SaveWrite(p) \/ Render(p)

(***************************************************************************)
(* fetch_and_generate_covers.py: process_course and process_batch.         *)
(***************************************************************************)
\* A faulty variant of process_course, which drops the exception text.
process_course_NoReason(f) ==
  IF f.pc = "raise"
  THEN <<f.alias, FALSE, None>>
  ELSE <<f.alias, ResultOf(f.outcome), None>>

\* The triple process_course returns for a finished generate_cover call.
process_course(f) ==
  IF f.pc = "raise"
  THEN <<f.alias, FALSE, Some(f.error)>>
  ELSE <<f.alias, ResultOf(f.outcome), None>>

\* A faulty variant of LoopGuard, which allows one pass too many.
LoopGuard_OffByOne(remaining, retry_count, max_retries) ==
  remaining # <<>> /\ retry_count <= max_retries

\* The while condition of process_batch.
LoopGuard(remaining, retry_count, max_retries) ==
  remaining # <<>> /\ retry_count < max_retries

\* A faulty variant of NextRemaining, which loses the first failed item.
NextRemaining_SkipsFirst(current_failed) ==
  IF current_failed = <<>> THEN <<>>
  ELSE [i \in 1..(Len(current_failed) - 1) |-> current_failed[i + 1][1]]

\* remaining_courses for the next pass, from the failures of this one.
NextRemaining(current_failed) ==
  [i \in DOMAIN current_failed |-> current_failed[i][1]]

\* A faulty variant of NextAllFailed, which extends the list instead of
\* replacing it.
NextAllFailed_Accumulates(all_failed, current_failed) ==
  all_failed \o current_failed

\* A faulty variant of NextAllFailed, which keeps the failure that was
\* collected first.
NextAllFailed_FirstOnly(all_failed, current_failed) ==
  IF current_failed = <<>> THEN <<>> ELSE <<current_failed[1]>>

\* all_failed after a pass.
NextAllFailed(all_failed, current_failed) == current_failed

\* The branch of the collection loop: a truthy result is a success.
IsSuccess(result) == result

SqIdle == [pc |-> "off"]
CliIdle == [pc |-> "off"]

PbInit ==
  [pc |-> "while", remaining_courses |-> <<>>, retry_count |-> 0,
   all_successful |-> <<>>, all_failed |-> <<>>, current_failed |-> <<>>,
   collected |-> 0, exit |-> None]

NoPool == [open |-> FALSE, queue |-> <<>>, outq |-> <<>>]

\* The processes of Pool(processes=n).
WorkerOrder == <<"w1", "w2">>
PoolWorkers(n) == {WorkerOrder[i] : i \in {j \in DOMAIN WorkerOrder : j <= n}}

\* A faulty variant of PassOver, which leaves the loop after the first
\* result.
PassOver_AfterFirst(collected, remaining) == collected >= 1

\* The iterator of imap_unordered is exhausted: one result per item.
PassOver(collected, remaining) == collected = Len(remaining)

\* The while test; when it holds, the pool of the pass is created and the
\* pending items are handed to it.
PB_While ==
  /\ pb.pc = "while"
  /\ IF LoopGuard(pb.remaining_courses, pb.retry_count, inp.max_retries)
     THEN /\ pool' = [open |-> TRUE, queue |-> pb.remaining_courses,
                      outq |-> <<>>]
          /\ pb' = [pb EXCEPT !.pc = "collect", !.current_failed = <<>>,
                              !.collected = 0]
          /\ attr' = [p \in Procs |-> None]
     ELSE /\ pb' = [pb EXCEPT !.pc = "return"]
          /\ UNCHANGED <<pool, attr>>
  /\ UNCHANGED <<envVars, fsVars, metaLeft, renderLeft, gc, inp, hist, sq, cli>>

\* A faulty variant of Worker_Take, in which process_course sets the
\* function attribute only when it is not set.
Worker_Take_KeepsAttr(w) ==
  /\ pool.open /\ pool.queue # <<>>
  /\ w \in PoolWorkers(inp.workers)
  /\ gc[w].pc = "idle"
  /\ LET a == Head(pool.queue) IN
     /\ attr' = IF attr[w] # None THEN attr
                ELSE [attr EXCEPT ![w] = inp.course_info_map[a]]
     /\ gc' = [gc EXCEPT ![w] = generate_cover_entry(a, inp.lang, inp.overwrite)]
  /\ pool' = [pool EXCEPT !.queue = Tail(@)]
  /\ UNCHANGED <<envVars, fsVars, metaLeft, renderLeft, inp, pb, hist, sq, cli>>

\* A free worker takes the next task: process_course sets the function
\* attribute and enters generate_cover.
Worker_Take(w) ==
  /\ pool.open /\ pool.queue # <<>>
  /\ w \in PoolWorkers(inp.workers)
  /\ gc[w].pc = "idle"
  /\ LET a == Head(pool.queue) IN
     /\ attr' = [attr EXCEPT ![w] = inp.course_info_map[a]]
     /\ gc' = [gc EXCEPT ![w] = generate_cover_entry(a, inp.lang, inp.overwrite)]
  /\ pool' = [pool EXCEPT !.queue = Tail(@)]
  /\ UNCHANGED <<envVars, fsVars, metaLeft, renderLeft, inp, pb, hist, sq, cli>>

\* process_course returns; its triple travels to the parent.
Worker_Return(w) ==
  /\ gc[w].pc \in {"ret", "raise"}
  /\ pool.open
  /\ pool' = [pool EXCEPT !.outq = Append1(@, process_course(gc[w]))]
  /\ hist' = [hist EXCEPT ![gc[w].alias] =
                Append1(@, [pass |-> pb.retry_count + 1,
                            outcome |-> gc[w].outcome,
                            error |-> gc[w].error,
                            stored |-> gc[w].stored])]
  /\ gc' = [gc EXCEPT ![w] = IdleFrame]
  /\ UNCHANGED <<envVars, fsVars, metaLeft, renderLeft, attr, inp, pb, sq, cli>>

\* One iteration of the for loop over imap_unordered.
PB_Collect ==
  /\ pb.pc = "collect"
  /\ pool.outq # <<>>
  /\ LET r == Head(pool.outq) IN
     pb' = IF IsSuccess(r[2])
           THEN [pb EXCEPT !.all_successful = Append1(@, r[1]),
                           !.collected = @ + 1]
           ELSE [pb EXCEPT !.current_failed = Append1(@, <<r[1], r[3]>>),
                           !.collected = @ + 1]
  /\ pool' = [pool EXCEPT !.outq = Tail(@)]
  /\ UNCHANGED <<envVars, fsVars, metaLeft, renderLeft, attr, gc, inp, hist, sq, cli>>

\* The iterator is exhausted: close and join the pool, then the
\* bookkeeping of the pass and the break.
PB_EndPass ==
  /\ pb.pc = "collect"
  /\ PassOver(pb.collected, pb.remaining_courses)
  /\ pool' = NoPool
  /\ LET rem == NextRemaining(pb.current_failed) IN
     pb' = [pb EXCEPT !.remaining_courses = rem,
                      !.all_failed = NextAllFailed(@, pb.current_failed),
                      !.retry_count = @ + 1,
                      !.current_failed = <<>>,
                      !.collected = 0,
                      !.pc = IF rem = <<>> THEN "return" ELSE "while"]
  /\ UNCHANGED <<envVars, fsVars, metaLeft, renderLeft, attr, gc, inp, hist, sq, cli>>

\* The exit status of fetch_and_generate_covers.main after process_batch
\* returned: it logs the report and returns, whatever the lists hold.
fetch_main_exit(failed_courses) == 0

\* main after process_batch: the final report, then the process ends.
Main_Exit ==
  /\ pb.pc = "return"
  /\ pb' = [pb EXCEPT !.pc = "exit",
                      !.exit = Some(fetch_main_exit(pb.all_failed))]
  /\ UNCHANGED <<envVars, fsVars, metaLeft, renderLeft, attr, gc, inp, pool,
                 hist, sq, cli>>

(***************************************************************************)
(* The parallel batch: one call of process_batch.                          *)
(***************************************************************************)
BatchLang == "en"
AllLangs == {"en", "zh"}
OtherLangs == {"zh"}

\* The entry fetch_courses builds for a course listed in the batch language.
ListedInfo(a, l) == Some([name |-> a, langs |-> {l}])

StubChoices ==
  {s \in [meta : 0..MaxFail, render : 0..MaxFail] : s.meta + s.render <= MaxFail}

\* A cover, its configuration and its icon left by an earlier run.
OldConfig(a) == NewConfig(LocalPath(a), 1, 0, "icon1.png")
OldParams(a, l) ==
  [image_url |-> LocalPath(a), bg_color |-> 1, lang |-> l]

FsEmpty ==
  /\ doc = MissingDoc
  /\ covers = NoCovers
  /\ icons = {}
  /\ clock = 1

FsAfterRun(a, l) ==
  /\ doc = [EmptyDoc EXCEPT !.data[a] = Some(OldConfig(a))]
  /\ covers = [NoCovers EXCEPT ![<<l, a>>] = Some(OldParams(a, l))]
  /\ icons = {IconFile(a, "png")}
  /\ clock = 1

BatchInitFor(wk) ==
  /\ api_key \in BOOLEAN
  /\ search = <<"results", "results", "results">>
  /\ cdn = "up"
  /\ \E ow \in BOOLEAN, mr \in (-1)..MaxRetriesBound,
        preset \in SUBSET Courses :
       /\ inp = [course_aliases |-> <<"c1", "c2">>,
                 course_info_map |->
                    [a \in Courses |->
                       IF a \in preset THEN ListedInfo(a, BatchLang) ELSE None],
                 lang |-> BatchLang, overwrite |-> ow, max_retries |-> mr,
                 workers |-> wk]
       /\ \/ FsEmpty /\ ~ow
          \/ FsAfterRun("c1", BatchLang)
  /\ catalog \in [Courses -> {None, Some(AllLangs), Some(OtherLangs)}]
  /\ stub \in [Courses -> StubChoices]
  /\ ~api_key => \A a \in Courses : stub[a] = [meta |-> 0, render |-> 0]
  /\ \A a \in Courses :
       \* a course fetch_courses listed is in the catalog, in that language
       /\ inp.course_info_map[a] # None => catalog[a] = Some(AllLangs)
       \* stubs only raise on calls the item can make
       /\ stub[a].meta > 0 => inp.course_info_map[a] = None
       /\ stub[a].render > 0 => catalog[a] = Some(AllLangs)
       /\ SkipsExisting(a, BatchLang, inp.overwrite) =>
             /\ inp.course_info_map[a] # None
             /\ stub[a] = [meta |-> 0, render |-> 0]
  /\ metaLeft = [a \in Courses |-> stub[a].meta]
  /\ renderLeft = [a \in Courses |-> stub[a].render]
  /\ attr = [p \in Procs |-> None]
  /\ gc = [p \in Procs |-> IdleFrame]
  /\ pb = [PbInit EXCEPT !.remaining_courses = inp.course_aliases]
  /\ pool = NoPool
  /\ hist = [a \in Courses |-> <<>>]
  /\ sq = SqIdle
  /\ cli = CliIdle

\* The batch with as many worker processes as the model has.
BatchInit == BatchInitFor(Cardinality(Workers))

Init == BatchInit

WorkerStep == \E w \in Workers : GenSteps(w)
WorkerTake == \E w \in Workers : Worker_Take(w)
WorkerReturn == \E w \in Workers : Worker_Return(w)

Next ==
  \/ PB_While
  \/ WorkerTake
  \/ WorkerStep
  \/ WorkerReturn
  \/ PB_Collect
  \/ PB_EndPass
  \/ Main_Exit

Spec == Init /\ [][Next]_vars

(***************************************************************************)
(* batch_generate_covers.py: main, the sequential batch over the keys of   *)
(* the configuration document, with its clean-invalid mode.                *)
(***************************************************************************)
\* The aliases that start with "project-".
ProjectAliases == {"c2"}
StartsWithProject(a) == a \in ProjectAliases

\* The keys of a document in the order main iterates them (the document is
\* written with sorted keys).
KeyOrder == <<"c1", "c2">>
RECURSIVE KeysFrom(_, _)
KeysFrom(data, i) ==
  IF i > Len(KeyOrder) THEN <<>>
  ELSE (IF data[KeyOrder[i]] # None THEN <<KeyOrder[i]>> ELSE <<>>)
       \o KeysFrom(data, i + 1)
Keys(data) == KeysFrom(data, 1)

\* load_course_config of the batch: the whole document, {} when it is
\* missing or unreadable.
load_whole_config(d) == IF d.exists /\ d.valid THEN d.data ELSE EmptyData

get_existing_covers(l) == {a \in Courses : covers[<<l, a>>] # None}

\* A faulty variant of MarksInvalid, which also marks a course whose
\* generation raised.
MarksInvalid_OnAnyFailure(clean_invalid, f) ==
  clean_invalid /\ (f.pc = "raise" \/ ResultOf(f.outcome) = FALSE)

\* Whether main marks the course for removal after generate_cover ended.
MarksInvalid(clean_invalid, f) ==
  clean_invalid /\ f.pc = "ret" /\ ResultOf(f.outcome) = FALSE

\* A faulty variant of RemoveInvalid, which writes back an empty document.
RemoveInvalid_All(data, invalid_courses) == EmptyData

\* The document the cleanup writes back.
RemoveInvalid(data, invalid_courses) ==
  [a \in Courses |-> IF a \in invalid_courses THEN None ELSE data[a]]

\* main up to the loop: the configuration is loaded; without any, main
\* returns.
SQ_Start ==
  /\ sq.pc = "start"
  /\ LET config == load_whole_config(doc) IN
     sq' = IF Keys(config) = <<>>
           THEN [sq EXCEPT !.pc = "done"]
           ELSE [sq EXCEPT !.pc = "loop", !.config = config,
                           !.todo = Keys(config),
                           !.existing_covers = get_existing_covers(sq.lang)]
  /\ UNCHANGED <<envVars, fsVars, metaLeft, renderLeft, attr, gc, batchVars,
                 cli>>

\* One iteration up to the call of generate_cover, or the end of the loop.
SQ_Iterate ==
  /\ sq.pc = "loop"
  /\ IF sq.todo = <<>>
     THEN /\ sq' = [sq EXCEPT !.pc = "cleanup"]
          /\ UNCHANGED gc
     ELSE LET a == Head(sq.todo) IN
          IF \/ sq.skip_projects /\ StartsWithProject(a)
             \/ a \in sq.existing_covers /\ ~sq.overwrite
          THEN /\ sq' = [sq EXCEPT !.todo = Tail(@),
                                   !.outcomes[a] = "skipped"]
               /\ UNCHANGED gc
          ELSE /\ sq' = [sq EXCEPT !.pc = "call"]
               /\ gc' = [gc EXCEPT !["main"] =
                            generate_cover_entry(a, sq.lang, sq.overwrite)]
  /\ UNCHANGED <<envVars, fsVars, metaLeft, renderLeft, attr, batchVars, cli>>

\* generate_cover returned or raised.
SQ_Return ==
  /\ sq.pc = "call"
  /\ Ended("main")
  /\ LET f == gc["main"] IN
     sq' = [sq EXCEPT !.pc = "loop", !.todo = Tail(@),
                      !.outcomes[f.alias] = f.outcome,
                      !.invalid_courses =
                         IF MarksInvalid(sq.clean_invalid, f)
                         THEN @ \cup {f.alias} ELSE @]
  /\ gc' = [gc EXCEPT !["main"] = IdleFrame]
  /\ UNCHANGED <<envVars, fsVars, metaLeft, renderLeft, attr, batchVars, cli>>

\* The cleanup after the loop: one read and one rewrite of the document.
SQ_Cleanup ==
  /\ sq.pc = "cleanup"
  /\ sq' = [sq EXCEPT !.pc = "done"]
  /\ doc' = IF sq.clean_invalid /\ sq.invalid_courses # {}
               /\ doc.exists /\ doc.valid
            THEN [doc EXCEPT !.data = RemoveInvalid(@, sq.invalid_courses)]
            ELSE doc
  /\ UNCHANGED <<envVars, covers, icons, clock, metaLeft, renderLeft, attr,
                 gc, batchVars, cli>>

SQ_Generate == sq.pc = "call" /\ GenSteps("main")

\* The document and the covers earlier runs left: any set of courses has a
\* configuration, and some of those have a cover in the language.
SeqInit ==
  /\ api_key = TRUE
  /\ search = <<"results", "results", "results">>
  /\ cdn = "up"
  /\ catalog \in [Courses -> {None, Some(AllLangs), Some(OtherLangs)}]
  /\ stub \in [Courses -> StubChoices]
  /\ \A a \in Courses : stub[a].meta + stub[a].render <= 1
  /\ metaLeft = [a \in Courses |-> stub[a].meta]
  /\ renderLeft = [a \in Courses |-> stub[a].render]
  /\ \E have \in SUBSET Courses, drawn \in SUBSET Courses :
       /\ drawn \subseteq have
       /\ doc \in {MissingDoc,
                   [EmptyDoc EXCEPT !.data =
                      [a \in Courses |-> IF a \in have
                                         THEN Some(OldConfig(a)) ELSE None]]}
       /\ doc = MissingDoc => have = {}
       /\ covers = [k \in Langs \X Courses |->
                      IF k[1] = BatchLang /\ k[2] \in drawn
                      THEN Some(OldParams(k[2], BatchLang)) ELSE None]
       /\ icons = {IconFile(a, "png") : a \in have}
  /\ clock = 1
  /\ attr = [p \in Procs |-> None]
  /\ gc = [p \in Procs |-> IdleFrame]
  /\ inp = [course_aliases |-> <<>>, course_info_map |-> EmptyData,
            lang |-> BatchLang, overwrite |-> FALSE, max_retries |-> 0,
            workers |-> 0]
  /\ pb = [PbInit EXCEPT !.pc = "off"]
  /\ pool = NoPool
  /\ hist = [a \in Courses |-> <<>>]
  /\ \E ow \in BOOLEAN, ci \in BOOLEAN, sp \in BOOLEAN :
       sq = [pc |-> "start", lang |-> BatchLang, overwrite |-> ow,
             clean_invalid |-> ci, skip_projects |-> sp,
             config |-> EmptyData, todo |-> <<>>, existing_covers |-> {},
             invalid_courses |-> {},
             outcomes |-> [a \in Courses |-> ""]]
  /\ cli = CliIdle

SeqNext ==
  \/ SQ_Start
  \/ SQ_Iterate
  \/ SQ_Generate
  \/ SQ_Return
  \/ SQ_Cleanup

SpecSeq == SeqInit /\ [][SeqNext]_vars

(***************************************************************************)
(* generate_cover.py: main, one run of the command after another.          *)
(***************************************************************************)
MaxRuns == 2

SupportedLanguages == <<"en", "zh">>      \* SUPPORTED_LANGUAGES, in order
LangArgs == Range(SupportedLanguages) \cup {"all", "xx"}

\* The status a run of main in single-language mode exits with.
ExitOfCall(f) == IF f.pc = "ret" /\ ResultOf(f.outcome) THEN 0 ELSE 1

\* success after one generate_cover call of the all-languages loop.
SuccessAfter(success, f) == success /\ f.pc = "ret" /\ ResultOf(f.outcome)

\* Ghost: the fields of cli that remember what a call started from, which
\* (course, language) pairs earlier calls were made for (called) and which
\* of them ended with the cover in place (prior).
Snapshot ==
  [doc |-> doc, covers |-> covers, icons |-> icons, clock |-> clock,
   metaLeft |-> metaLeft, renderLeft |-> renderLeft]

CallGhost(c, a, l) ==
  [c EXCEPT !.snap = Snapshot, !.calls = @ + 1]

\* A run starts, a fresh process: the argument checks and, in single
\* mode, the call of generate_cover.
CLI_Run ==
  /\ cli.pc = "idle"
  /\ cli.runs < MaxRuns
  /\ \E a \in Courses, l \in LangArgs, ow \in BOOLEAN :
       LET c == [cli EXCEPT !.course_alias = a, !.lang = l, !.overwrite = ow,
                            !.runs = @ + 1, !.success = TRUE, !.todo = <<>>,
                            !.calls = 0]
       IN
       IF l = "all"
       THEN /\ cli' = [c EXCEPT !.pc = "prefetch"]
            /\ UNCHANGED gc
       ELSE IF l \notin Range(SupportedLanguages)
       THEN /\ cli' = [c EXCEPT !.exit = 1]
            /\ UNCHANGED gc
       ELSE /\ cli' = [CallGhost(c, a, l) EXCEPT !.pc = "call"]
            /\ gc' = [gc EXCEPT !["main"] = generate_cover_entry(a, l, ow)]
  /\ attr' = [attr EXCEPT !["main"] = None]
  /\ UNCHANGED <<envVars, fsVars, metaLeft, renderLeft, batchVars, sq>>

\* All-languages mode: the course information is fetched once and put
\* into the function attribute.
CLI_Prefetch ==
  /\ cli.pc = "prefetch"
  /\ LET a == cli.course_alias
         r == get_course_info(a, "en", CatalogAnswer(a, metaLeft[a])) IN
     /\ metaLeft' = [metaLeft EXCEPT ![a] = IF @ > 0 THEN @ - 1 ELSE 0]
     /\ IF r.raised \/ r.course_info = None
        THEN /\ cli' = [cli EXCEPT !.pc = "idle", !.exit = 1]
             /\ UNCHANGED attr
        ELSE /\ cli' = [cli EXCEPT !.pc = "loop", !.todo = SupportedLanguages]
             /\ attr' = [attr EXCEPT !["main"] = r.course_info]
  /\ UNCHANGED <<envVars, fsVars, renderLeft, gc, batchVars, sq>>

\* The loop over the supported languages.
CLI_Iterate ==
  /\ cli.pc = "loop"
  /\ IF cli.todo = <<>>
     THEN /\ cli' = [cli EXCEPT !.pc = "idle",
                                !.exit = IF cli.success THEN 0 ELSE 1]
          /\ UNCHANGED gc
     ELSE /\ cli' = [CallGhost(cli, cli.course_alias, Head(cli.todo))
                       EXCEPT !.pc = "call_all"]
          /\ gc' = [gc EXCEPT !["main"] =
                      generate_cover_entry(cli.course_alias, Head(cli.todo),
                                           cli.overwrite)]
  /\ UNCHANGED <<envVars, fsVars, metaLeft, renderLeft, attr, batchVars, sq>>

CLI_Generate == cli.pc \in {"call", "call_all"} /\ GenSteps("main")

\* generate_cover returned or raised.
CLI_Return ==
  /\ cli.pc \in {"call", "call_all"}
  /\ Ended("main")
  /\ LET f == gc["main"]
         left == IF f.outcome \in {"Rendered", "SkippedExisting"}
                 THEN cli.prior \cup {<<f.alias, f.lang>>} ELSE cli.prior
     IN
     cli' = IF cli.pc = "call"
            THEN [cli EXCEPT !.pc = "idle", !.exit = ExitOfCall(f),
                             !.prior = left,
                             !.called = @ \cup {<<f.alias, f.lang>>}]
            ELSE [cli EXCEPT !.pc = "loop", !.todo = Tail(@),
                             !.success = SuccessAfter(@, f),
                             !.prior = left,
                             !.called = @ \cup {<<f.alias, f.lang>>}]
  /\ gc' = [gc EXCEPT !["main"] = IdleFrame]
  /\ UNCHANGED <<envVars, fsVars, metaLeft, renderLeft, attr, batchVars, sq>>

AllResults == <<"results", "results", "results">>

\* What the icon search and the icon download meet during the runs.
NetChoices ==
  {<<AllResults, "up">>, <<AllResults, "down">>, <<AllResults, "partial">>,
   <<<<"empty", "empty", "empty">>, "up">>,
   <<<<"error", "error", "error">>, "up">>,
   <<<<"error", "results", "results">>, "up">>}

\* The stubs raise at most once in all.
OneFailure ==
  {s \in [Courses -> StubChoices] :
     Cardinality({a \in Courses : s[a].meta + s[a].render > 0}) <= 1
     /\ \A a \in Courses : s[a].meta + s[a].render <= 1}

CliInit ==
  /\ api_key \in BOOLEAN
  /\ \E n \in NetChoices : search = n[1] /\ cdn = n[2]
  /\ ~api_key => (search = AllResults /\ cdn = "up")
  /\ catalog \in [Courses -> {None, Some(AllLangs), Some(OtherLangs)}]
  /\ stub \in OneFailure
  /\ metaLeft = [a \in Courses |-> stub[a].meta]
  /\ renderLeft = [a \in Courses |-> stub[a].render]
  /\ FsEmpty
  /\ attr = [p \in Procs |-> None]
  /\ gc = [p \in Procs |-> IdleFrame]
  /\ inp = [course_aliases |-> <<>>, course_info_map |-> EmptyData,
            lang |-> BatchLang, overwrite |-> FALSE, max_retries |-> 0,
            workers |-> 0]
  /\ pb = [PbInit EXCEPT !.pc = "off"]
  /\ pool = NoPool
  /\ hist = [a \in Courses |-> <<>>]
  /\ sq = SqIdle
  /\ cli = [pc |-> "idle", course_alias |-> "", lang |-> "",
            overwrite |-> FALSE, todo |-> <<>>, success |-> TRUE,
            runs |-> 0, exit |-> 0, calls |-> 0, prior |-> {},
            called |-> {},
            snap |-> Snapshot]

CliNext ==
  \/ CLI_Run
  \/ CLI_Prefetch
  \/ CLI_Iterate
  \/ CLI_Generate
  \/ CLI_Return

SpecCli == CliInit /\ [][CliNext]_vars

(***************************************************************************)
(* One run of the command on an empty tree, against every behaviour of     *)
(* the icon search and of the icon download.                               *)
(***************************************************************************)
SearchOutcomes == {"results", "empty", "error"}
AllSearches == [1..ResolverMaxRetries -> SearchOutcomes]
CdnStates == {"up", "down", "partial"}

OneInit ==
  /\ api_key \in BOOLEAN
  /\ search \in AllSearches
  /\ cdn \in CdnStates
  /\ ~api_key => (search = AllResults /\ cdn = "up")
  /\ catalog \in [Courses -> {None, Some(AllLangs), Some(OtherLangs)}]
  /\ stub \in OneFailure
  /\ metaLeft = [a \in Courses |-> stub[a].meta]
  /\ renderLeft = [a \in Courses |-> stub[a].render]
  /\ FsEmpty
  /\ attr = [p \in Procs |-> None]
  /\ gc = [p \in Procs |-> IdleFrame]
  /\ inp = [course_aliases |-> <<>>, course_info_map |-> EmptyData,
            lang |-> BatchLang, overwrite |-> FALSE, max_retries |-> 0,
            workers |-> 0]
  /\ pb = [PbInit EXCEPT !.pc = "off"]
  /\ pool = NoPool
  /\ hist = [a \in Courses |-> <<>>]
  /\ sq = SqIdle
  \* the run count leaves room for one run
  /\ cli = [pc |-> "idle", course_alias |-> "", lang |-> "",
            overwrite |-> FALSE, todo |-> <<>>, success |-> TRUE,
            runs |-> MaxRuns - 1, exit |-> 0, calls |-> 0, prior |-> {},
            called |-> {},
            snap |-> Snapshot]

SpecOne == OneInit /\ [][CliNext]_vars

(***************************************************************************)
(* generate_cover.py: main, runs of the command over what earlier runs     *)
(* left: a document that is missing, corrupt or valid, and covers.         *)
(***************************************************************************)
\* A document that cannot be parsed; data is what the text once held.
CorruptDocs ==
  {[exists |-> TRUE, valid |-> FALSE, data |-> EmptyData],
   [exists |-> TRUE, valid |-> FALSE,
    data |-> [EmptyData EXCEPT !["c1"] = Some(OldConfig("c1"))]]}

TreeInit ==
  /\ api_key = TRUE
  /\ search = AllResults
  /\ cdn = "up"
  /\ catalog \in [Courses -> {None, Some(AllLangs), Some(OtherLangs)}]
  /\ catalog["c2"] = Some(AllLangs)
  /\ stub \in OneFailure
  /\ metaLeft = [a \in Courses |-> stub[a].meta]
  /\ renderLeft = [a \in Courses |-> stub[a].render]
  /\ doc \in {MissingDoc, [EmptyDoc EXCEPT !.data["c1"] = Some(OldConfig("c1"))]}
             \cup CorruptDocs
  /\ covers \in {NoCovers,
                 [NoCovers EXCEPT ![<<BatchLang, "c1">>] =
                    Some(OldParams("c1", BatchLang))]}
  /\ icons \in {{}, {IconFile("c1", "png")}}
  /\ (doc.exists /\ doc.valid) => icons # {}
  /\ clock = 1
  /\ attr = [p \in Procs |-> None]
  /\ gc = [p \in Procs |-> IdleFrame]
  /\ inp = [course_aliases |-> <<>>, course_info_map |-> EmptyData,
            lang |-> BatchLang, overwrite |-> FALSE, max_retries |-> 0,
            workers |-> 0]
  /\ pb = [PbInit EXCEPT !.pc = "off"]
  /\ pool = NoPool
  /\ hist = [a \in Courses |-> <<>>]
  /\ sq = SqIdle
  /\ cli = [pc |-> "idle", course_alias |-> "", lang |-> "",
            overwrite |-> FALSE, todo |-> <<>>, success |-> TRUE,
            runs |-> 0, exit |-> 0, calls |-> 0, prior |-> {},
            called |-> {},
            snap |-> Snapshot]

SpecTree == TreeInit /\ [][CliNext]_vars

(***************************************************************************)
(* generate_cover.py: main, runs of the command while the icon search      *)
(* answers without icons or fails, and after it has recovered.             *)
(***************************************************************************)
AllEmpty == <<"empty", "empty", "empty">>
AllErrors == <<"error", "error", "error">>

\* Between two runs the icon search starts to answer with icons.
API_Recovers ==
  /\ cli.pc = "idle"
  /\ search # AllResults
  /\ search' = AllResults
  /\ UNCHANGED <<catalog, stub, api_key, cdn, fsVars, metaLeft, renderLeft,
                 attr, gc, batchVars, sq, cli>>

RecoverInit ==
  /\ api_key = TRUE
  /\ search \in {AllEmpty, AllErrors}
  /\ cdn = "up"
  /\ catalog = [a \in Courses |-> Some(AllLangs)]
  /\ stub \in OneFailure
  /\ \A a \in Courses : stub[a].meta = 0
  /\ metaLeft = [a \in Courses |-> stub[a].meta]
  /\ renderLeft = [a \in Courses |-> stub[a].render]
  /\ doc \in {MissingDoc, [EmptyDoc EXCEPT !.data["c1"] = Some(OldConfig("c1"))]}
             \cup CorruptDocs
  /\ covers = NoCovers
  /\ icons = IF doc.exists /\ doc.valid THEN {IconFile("c1", "png")} ELSE {}
  /\ clock = 1
  /\ attr = [p \in Procs |-> None]
  /\ gc = [p \in Procs |-> IdleFrame]
  /\ inp = [course_aliases |-> <<>>, course_info_map |-> EmptyData,
            lang |-> BatchLang, overwrite |-> FALSE, max_retries |-> 0,
            workers |-> 0]
  /\ pb = [PbInit EXCEPT !.pc = "off"]
  /\ pool = NoPool
  /\ hist = [a \in Courses |-> <<>>]
  /\ sq = SqIdle
  /\ cli = [pc |-> "idle", course_alias |-> "", lang |-> "",
            overwrite |-> FALSE, todo |-> <<>>, success |-> TRUE,
            runs |-> 0, exit |-> 0, calls |-> 0, prior |-> {},
            called |-> {},
            snap |-> Snapshot]

RecoverNext ==
  \/ CLI_Run
  \/ CLI_Prefetch
  \/ CLI_Iterate
  \/ CLI_Generate
  \/ CLI_Return
  \/ API_Recovers

SpecRecover == RecoverInit /\ [][RecoverNext]_vars

(***************************************************************************)
(* generate_cover.py: load_course_config, save_course_config and           *)
(* download_image called one after another by one process, against any     *)
(* document: missing, corrupt, or with any keys.                           *)
(***************************************************************************)
MaxCalls == 3

ValidDocs ==
  {[EmptyDoc EXCEPT !.data =
      [a \in Courses |-> IF a \in have THEN Some(OldConfig(a)) ELSE None]] :
   have \in SUBSET Courses}

DocChoices == {MissingDoc} \cup CorruptDocs \cup ValidDocs

UnitUrls == IconUrls \cup {"icon2.jpg", "icon3.svg"}

\* Ghost: what the call started from.
UnitGhost(op, a, arg) ==
  [pc |-> "unit", calls |-> cli.calls + 1, op |-> op, alias |-> a,
   arg |-> arg, before |-> [doc |-> doc, icons |-> icons],
   returned |-> FALSE, raised |-> FALSE, result |-> None,
   requested |-> FALSE]

\* load_course_config(a) is called.
Unit_Get ==
  /\ cli.pc = "unit" /\ gc["main"].pc = "idle" /\ cli.calls < MaxCalls
  /\ \E a \in Courses :
       /\ gc' = [gc EXCEPT !["main"] =
                   [IdleFrame EXCEPT !.pc = "load", !.alias = a]]
       /\ cli' = UnitGhost("get", a, None)
  /\ UNCHANGED <<envVars, fsVars, metaLeft, renderLeft, attr, batchVars, sq>>

\* save_course_config(a, cfg) is called.
Unit_Set ==
  /\ cli.pc = "unit" /\ gc["main"].pc = "idle" /\ cli.calls < MaxCalls
  /\ \E a \in Courses, color \in Colors :
       LET cfg == Some(NewConfig(LocalPath(a), color, clock, "icon1.png")) IN
       /\ gc' = [gc EXCEPT !["main"] =
                   [IdleFrame EXCEPT !.pc = "save", !.alias = a,
                                     !.course_config = cfg]]
       /\ cli' = UnitGhost("set", a, cfg)
  /\ UNCHANGED <<envVars, fsVars, metaLeft, renderLeft, attr, batchVars, sq>>

Unit_Steps ==
  /\ cli.pc = "unit"
  /\ Load("main") \/ LoadCreate("main") \/ Save("main") \/ SaveWrite("main")

\* The call of load_course_config or save_course_config is over.
Unit_Return ==
  /\ cli.pc = "unit"
  /\ gc["main"].pc \in {"freepik", "render", "raise"}
  /\ cli' = [cli EXCEPT !.returned = TRUE,
                        !.raised = gc["main"].pc = "raise",
                        !.result = IF cli.op = "get"
                                   THEN gc["main"].course_config ELSE None]
  /\ gc' = [gc EXCEPT !["main"] = IdleFrame]
  /\ UNCHANGED <<envVars, fsVars, metaLeft, renderLeft, attr, batchVars, sq>>

\* download_image(u, a), from its call to its return.
Unit_Download ==
  /\ cli.pc = "unit" /\ gc["main"].pc = "idle" /\ cli.calls < MaxCalls
  /\ \E u \in UnitUrls, a \in Courses :
       LET d == download_image(u, a, IconFile(a, Ext(u)) \in icons, cdn) IN
       /\ icons' = IF d.file THEN icons \cup {IconFile(a, Ext(u))} ELSE icons
       /\ cli' = [UnitGhost("download", a, Some(u)) EXCEPT
                    !.returned = TRUE, !.result = Some(d.path),
                    !.requested = d.requested]
  /\ UNCHANGED <<envVars, doc, covers, clock, metaLeft, renderLeft, attr, gc,
                 batchVars, sq>>

UnitInit ==
  /\ api_key = TRUE
  /\ search = AllResults
  /\ cdn \in CdnStates
  /\ catalog = [a \in Courses |-> Some(AllLangs)]
  /\ stub = [a \in Courses |-> [meta |-> 0, render |-> 0]]
  /\ metaLeft = [a \in Courses |-> 0]
  /\ renderLeft = [a \in Courses |-> 0]
  /\ doc \in DocChoices
  /\ covers = NoCovers
  /\ icons = {}
  /\ clock = 1
  /\ attr = [p \in Procs |-> None]
  /\ gc = [p \in Procs |-> IdleFrame]
  /\ inp = [course_aliases |-> <<>>, course_info_map |-> EmptyData,
            lang |-> BatchLang, overwrite |-> FALSE, max_retries |-> 0,
            workers |-> 0]
  /\ pb = [PbInit EXCEPT !.pc = "off"]
  /\ pool = NoPool
  /\ hist = [a \in Courses |-> <<>>]
  /\ sq = SqIdle
  /\ cli = [pc |-> "unit", calls |-> 0, op |-> "", alias |-> "",
            arg |-> None, before |-> [doc |-> doc, icons |-> icons],
            returned |-> FALSE, raised |-> FALSE, result |-> None,
            requested |-> FALSE]

UnitNext ==
  \/ Unit_Get
  \/ Unit_Set
  \/ Unit_Steps
  \/ Unit_Return
  \/ Unit_Download

SpecUnit == UnitInit /\ [][UnitNext]_vars

\* Every process that can take a step eventually takes one: the workers
\* and the parent are separate operating-system processes.
\* process_batch with any number of workers up to the model's and the
\* credential set; with more than one worker no course information is
\* handed in.
PoolInit ==
  /\ \E wk \in 1..Cardinality(Workers) : BatchInitFor(wk)
  /\ api_key
  /\ inp.workers > 1 => inp.course_info_map = EmptyData

SpecPool == PoolInit /\ [][Next]_vars

FairSpec == Spec /\ WF_vars(Next)

(***************************************************************************)
(* The parallel batch with the cache accesses serialized from outside:     *)
(* a worker's cycle from load_course_config to the end of                  *)
(* save_course_config never overlaps the cycle of another worker.          *)
(***************************************************************************)
\* The worker has loaded the document and not yet finished its save.
InCycle(w) == gc[w].pc \in {"load_mk", "freepik", "save", "save_wr"}

\* The worker may take its next step: it enters its cycle only when no
\* other worker is inside one.
MayStep(w) ==
  gc[w].pc = "load" => \A v \in Workers \ {w} : ~InCycle(v)

SerialWorkerStep == \E w \in Workers : MayStep(w) /\ GenSteps(w)

SerialNext ==
  \/ PB_While
  \/ WorkerTake
  \/ SerialWorkerStep
  \/ WorkerReturn
  \/ PB_Collect
  \/ PB_EndPass
  \/ Main_Exit

SpecSerial == BatchInit /\ [][SerialNext]_vars

(***************************************************************************)
(* What is observed of a batch.                                            *)
(***************************************************************************)
Done == pb.pc = "return"
Succeeded == Range(pb.all_successful)
FailedItems == {pb.all_failed[i][1] : i \in DOMAIN pb.all_failed}
NoDuplicates(s) == \A i, j \in DOMAIN s : s[i] = s[j] => i = j

\* The item is queued in the pool or in the hands of a worker.
InFlight(a) ==
  \/ a \in Range(pool.queue)
  \/ \E w \in Workers : gc[w].pc # "idle" /\ gc[w].alias = a

\* How often the item was handed to the pool so far.
Dispatched(a) == Len(hist[a]) + (IF InFlight(a) THEN 1 ELSE 0)

SuccessOutcomes == {"Rendered", "SkippedExisting", "SkippedUnsupportedLanguage"}
FailureOutcomes == {"Failed", "NotFound"}
AbsenceOutcomes == {"NotFound", "SkippedUnsupportedLanguage"}

\* The reason process_batch is given for a failed attempt.
ReasonOf(h) == IF h.outcome = "Failed" THEN Some(h.error) ELSE None

\* The failures of pass n, with their reasons, as the generator produced
\* them.
Attempts ==
  UNION {{<<a, hist[a][i]>> : i \in DOMAIN hist[a]} : a \in Courses}

FailedInPass(n) ==
  {<<e[1], ReasonOf(e[2])>> :
     e \in {x \in Attempts : /\ x[2].pass = n
                             /\ x[2].outcome \in FailureOutcomes}}

SucceededInSomePass ==
  {a \in Courses : \E i \in DOMAIN hist[a] :
                     hist[a][i].outcome \in SuccessOutcomes}

\* The stubs of the item raise on its first k attempts, and the attempt
\* after them succeeds.
LeadingFailures(a) == stub[a].meta + stub[a].render
SucceedsAfterStubs(a) ==
  /\ api_key
  /\ inp.course_info_map[a] # None \/ catalog[a] # None

\* C1: an item that fails on its first k attempts and succeeds on attempt
\* k+1 is in the returned success list iff max_retries >= k+1, and in the
\* returned failure list when 1 <= max_retries <= k.
C1_RetryBound ==
  Done =>
    \A a \in Range(inp.course_aliases) :
      SucceedsAfterStubs(a) =>
        /\ a \in Succeeded <=> inp.max_retries >= LeadingFailures(a) + 1
        /\ (inp.max_retries >= 1 /\ inp.max_retries < LeadingFailures(a) + 1)
              => a \in FailedItems

C1_Witness ==
  /\ Done
  /\ inp.max_retries = 2
  /\ SucceedsAfterStubs("c1") /\ LeadingFailures("c1") = 2
  /\ "c1" \in FailedItems
  /\ SucceedsAfterStubs("c2") /\ LeadingFailures("c2") = 1
  /\ "c2" \in Succeeded

\* C2: when process_batch returns (max_retries >= 1), every input item is
\* exactly once in exactly one of the two returned lists.
C2_ExactlyOneOutcome ==
  (Done /\ inp.max_retries >= 1) =>
    /\ NoDuplicates(pb.all_successful)
    /\ NoDuplicates(pb.all_failed)
    /\ NoDuplicates(NextRemaining(pb.all_failed))
    /\ Succeeded \cap FailedItems = {}
    /\ Succeeded \cup FailedItems = Range(inp.course_aliases)

C2_Witness ==
  /\ Done
  /\ pb.retry_count >= 2
  /\ Succeeded # {} /\ FailedItems # {}

\* C3: the returned failure list is exactly the failures of the last
\* executed pass, each with the reason of that pass, and the returned
\* success list is the union of the successes of all passes.
C3_LastPassFailures ==
  Done =>
    /\ Range(pb.all_failed) = FailedInPass(pb.retry_count)
    /\ Len(pb.all_failed) = Cardinality(FailedInPass(pb.retry_count))
    /\ Succeeded = SucceededInSomePass

C3_Witness ==
  /\ Done
  /\ pb.retry_count = 2
  /\ \E a \in Courses :
       /\ Len(hist[a]) = 2
       /\ hist[a][1].error = "catalog error"
       /\ hist[a][2].error = "render error"
       /\ <<a, Some("render error")>> \in Range(pb.all_failed)

\* The passes the loop condition retry_count < max_retries allows.
PassLimit == IF inp.max_retries < 0 THEN 0 ELSE inp.max_retries

\* Passes started so far.
PassesStarted == pb.retry_count + (IF pool.open THEN 1 ELSE 0)

C4_Bounded ==
  /\ PassesStarted <= PassLimit
  /\ \A a \in Courses : Dispatched(a) <= PassLimit
  /\ pool.open => pb.remaining_courses # <<>>
  /\ (pb.pc = "while" /\ pb.retry_count > 0) => pb.remaining_courses # <<>>
  /\ (Done /\ pb.remaining_courses # <<>>) => pb.retry_count = PassLimit

\* C4: process_batch terminates; it runs at most max_retries passes,
\* dispatches each item at most max_retries times, never dispatches an empty
\* pending set, and returns right after the first pass without a failure.
C4_Terminates == []C4_Bounded /\ <>Done

C4_Witness ==
  /\ Done
  /\ inp.max_retries = 3
  /\ pb.retry_count = 2
  /\ pb.all_failed = <<>>
  /\ \E a \in Courses : Len(hist[a]) = 2

\* The result of the item is on its way to the parent.
InTransit(a) == \E k \in DOMAIN pool.outq : pool.outq[k][1] = a

CurrentFailed == {pb.current_failed[i][1] : i \in DOMAIN pb.current_failed}
Pending == Range(pb.remaining_courses)

\* C5: in every pass an item whose generator outcome is Rendered,
\* SkippedExisting or SkippedUnsupportedLanguage is counted as success and
\* never dispatched again, an item whose outcome is Failed or NotFound is
\* counted as failure, and the pending set of the next pass is exactly the
\* failed subset of the pass.
C5_Classification ==
  /\ \A e \in Attempts :
       LET a == e[1]  h == e[2] IN
       /\ h.outcome \in SuccessOutcomes =>
            /\ h = hist[a][Len(hist[a])]
            /\ ~InFlight(a)
            /\ a \in Succeeded \/ InTransit(a)
       /\ (h.outcome \in FailureOutcomes /\ h.pass = pb.retry_count + 1) =>
            /\ a \notin Succeeded
            /\ a \in CurrentFailed \/ InTransit(a)
  /\ \A a \in Succeeded :
       hist[a][Len(hist[a])].outcome \in SuccessOutcomes
  /\ (~pool.open /\ pb.retry_count >= 1) =>
       /\ Pending = {x[1] : x \in FailedInPass(pb.retry_count)}
       /\ NoDuplicates(pb.remaining_courses)

C5_Witness ==
  /\ pb.pc = "while" /\ pb.retry_count = 1
  /\ Pending = {"c2"}
  /\ hist["c2"][1].outcome = "NotFound"
  /\ hist["c1"][1].outcome = "SkippedUnsupportedLanguage"
  /\ Succeeded = {"c1"}

\* C6: an item whose outcome is an absence (the course does not exist, or
\* the language is not supported for it) is never dispatched again.
C6_AbsenceNeverRetried ==
  \A e \in Attempts :
    e[2].outcome \in AbsenceOutcomes =>
      /\ e[2] = hist[e[1]][Len(hist[e[1]])]
      /\ ~InFlight(e[1])

\* The configuration the document holds for the course, if any.
Stored(d, a) == IF d.exists /\ d.valid THEN d.data[a] ELSE None

\* C8: once the document holds a VisualConfig for a course, it is never
\* regenerated or overwritten (no step of a batch removes a key).
C8_CacheStable ==
  [][\A a \in Courses : Stored(doc, a) # None => Stored(doc', a) = Stored(doc, a)]_vars

\* C10: for an item without artifact, a 404 of the catalog ends NotFound
\* (generate_cover returns False), and an answer whose langs lack the
\* language ends SkippedUnsupportedLanguage (it returns True and the batch
\* is given a success), never Failed.
C10_Classification ==
  \A p \in Procs :
    Ended(p) =>
      LET f == gc[p] IN
      /\ f.met = "404" =>
           /\ f.pc = "ret" /\ f.outcome = "NotFound"
           /\ process_course(f) = <<f.alias, FALSE, None>>
      /\ (f.met = "200" /\ f.lang \notin catalog[f.alias][1]) =>
           /\ f.pc = "ret" /\ f.outcome = "SkippedUnsupportedLanguage"
           /\ process_course(f) = <<f.alias, TRUE, None>>

C10_Witness ==
  /\ Ended("w1") /\ gc["w1"].met = "404"
  /\ Ended("w2") /\ gc["w2"].met = "200"
  /\ gc["w2"].outcome = "SkippedUnsupportedLanguage"

\* C7: in the clean-invalid mode of the sequential batch a course enters
\* the removal set only if generate_cover returned False for it; a course
\* whose generation raised, was skipped or was language-unsupported never
\* does, and the cleanup removes exactly the keys of the not-found courses.
C7_CleanupSafety ==
  sq.pc \in {"loop", "call", "cleanup", "done"} /\ sq.config # EmptyData =>
    /\ \A a \in sq.invalid_courses :
         sq.clean_invalid /\ sq.outcomes[a] = "NotFound"
    /\ sq.pc = "done" =>
         \A a \in Courses :
           Stored(doc, a) =
             IF sq.clean_invalid /\ sq.outcomes[a] = "NotFound"
             THEN None ELSE sq.config[a]

C7_Witness ==
  /\ sq.pc = "done"
  /\ sq.clean_invalid
  /\ sq.outcomes["c1"] = "NotFound" /\ sq.config["c1"] # None
  /\ Stored(doc, "c1") = None
  /\ sq.outcomes["c2"] = "Failed" /\ Stored(doc, "c2") # None

\* C9, as stated: every generate_cover call with overwrite disabled that
\* follows an earlier call for the same course and language ends
\* SkippedExisting and leaves the artifact and the configuration document
\* as they were.
C9_AnySecondCall ==
  (cli.pc \in {"call", "call_all"} /\ Ended("main")) =>
    LET f == gc["main"] IN
    (<<f.alias, f.lang>> \in cli.called /\ ~f.overwrite) =>
      /\ f.pc = "ret" /\ f.outcome = "SkippedExisting"
      /\ doc = cli.snap.doc
      /\ covers = cli.snap.covers
      /\ icons = cli.snap.icons

\* C9: a generate_cover call with overwrite disabled that follows an
\* earlier call for the same course and language which ended Rendered or
\* SkippedExisting ends SkippedExisting and leaves the artifact and the
\* configuration document as they were.
C9_Idempotent ==
  (cli.pc \in {"call", "call_all"} /\ Ended("main")) =>
    LET f == gc["main"] IN
    (<<f.alias, f.lang>> \in cli.prior /\ ~f.overwrite) =>
      /\ f.pc = "ret" /\ f.outcome = "SkippedExisting"
      /\ doc = cli.snap.doc
      /\ covers = cli.snap.covers
      /\ icons = cli.snap.icons

C9_Witness ==
  /\ cli.pc = "call" /\ Ended("main")
  /\ <<gc["main"].alias, gc["main"].lang>> \in cli.prior
  /\ ~gc["main"].overwrite
  /\ gc["main"].outcome = "SkippedExisting"
  /\ Stored(doc, gc["main"].alias) # None

\* How many icon requests raise before the first one that is answered.
LeadingErrors(requests) ==
  Cardinality({i \in DOMAIN requests :
                 \A j \in 1..i : requests[j] = "error"})

\* The frames that hold what get_freepik_image did and returned.
Resolved == {p \in Procs : gc[p].resolver # None}

\* C11: get_freepik_image answers the empty-result default when the search
\* is answered without icons (after one request when the first request is
\* answered so), the exhausted-retry default when every request raises, an
\* icon when icons are found; the two defaults differ; with the credential
\* present it always answers a reference and never raises.
C11_Fallbacks ==
  /\ DefaultEmpty # DefaultExhausted
  /\ \A p \in Procs :
       LET f == gc[p]
           k == LeadingErrors(search) IN
       /\ p \in Resolved =>
            /\ f.freepik_url \in ResolverResults
            /\ k = ResolverMaxRetries => f.freepik_url = DefaultExhausted
            /\ (k < ResolverMaxRetries /\ search[k + 1] = "empty") =>
                  f.freepik_url = DefaultEmpty
            /\ (k < ResolverMaxRetries /\ search[k + 1] = "results") =>
                  f.freepik_url \in IconUrls
            /\ search[1] = "empty" =>
                  f.resolver[1].requests = 1 /\ f.resolver[1].slept = <<>>
       /\ (api_key /\ f.pc = "freepik") =>
            FreepikUrls(get_freepik_image(search).kind) # {}
       /\ (api_key /\ f.pc = "raise") =>
            f.error \in {"catalog error", "render error"}

C11_Witness ==
  /\ search[1] = "empty"
  /\ "main" \in Resolved
  /\ gc["main"].freepik_url = DefaultEmpty
  /\ gc["main"].resolver[1].requests = 1

\* C12: get_freepik_image makes at most 3 requests, one more than the
\* requests that raised before the first answer; it sleeps 1 after the
\* first failed attempt and 2 after the second, and not after the third.
C12_Backoff ==
  \A p \in Resolved :
    LET r == gc[p].resolver[1]
        k == LeadingErrors(search) IN
    /\ r.requests <= 3
    /\ r.requests = IF k < 3 THEN k + 1 ELSE 3
    /\ r.slept = SubSeq(<<1, 2>>, 1, IF k < 3 THEN k ELSE 2)

C12_Witness ==
  /\ search = <<"error", "error", "error">>
  /\ "main" \in Resolved
  /\ gc["main"].resolver[1].requests = 3
  /\ gc["main"].resolver[1].slept = <<1, 2>>

\* C13: a generate_cover call for a course without stored configuration,
\* whose icon requests all raise while the catalog and the renderer do
\* not, ends Rendered with the exhausted-retry default as its image, and
\* its caller is given a success.
C13_FallbackRenders ==
  (cli.pc \in {"call", "call_all"} /\ Ended("main")) =>
    LET f == gc["main"] IN
    ( /\ api_key
      /\ LeadingErrors(search) = ResolverMaxRetries
      /\ Stored(cli.snap.doc, f.alias) = None
      /\ f.outcome \notin {"SkippedExisting", "NotFound",
                          "SkippedUnsupportedLanguage"}
      /\ ~(f.pc = "raise" /\ f.error \in {"catalog error", "render error"}) )
    =>
      /\ f.pc = "ret" /\ f.outcome = "Rendered"
      /\ process_course(f) = <<f.alias, TRUE, None>>
      /\ Stored(doc, f.alias) # None
      /\ Stored(doc, f.alias)[1].remote_url = Some(DefaultExhausted)
      /\ covers[<<f.lang, f.alias>>] # None
      /\ covers[<<f.lang, f.alias>>][1].image_url
           \in {LocalPath(f.alias), RemoteRef(DefaultExhausted)}

C13_Witness ==
  /\ cli.pc = "call" /\ Ended("main")
  /\ search = <<"error", "error", "error">>
  /\ cdn = "down"
  /\ Stored(cli.snap.doc, gc["main"].alias) = None
  /\ gc["main"].outcome = "Rendered"
  /\ covers[<<gc["main"].lang, gc["main"].alias>>] # None
  /\ covers[<<gc["main"].lang, gc["main"].alias>>][1].image_url
       = RemoteRef(DefaultExhausted)

\* C14: the write of save_course_config stores the document its read saw
\* plus its own key and returns without error, so a key another worker
\* added between the read and the write is dropped; with two workers a
\* state is reached where both read before either wrote and the document
\* holds only the second writer's key.
C14_LostUpdate ==
  [][\A w \in Workers :
       (gc[w].pc = "save_wr" /\ gc'[w].pc # "save_wr") =>
          /\ gc'[w].pc = "render"
          /\ gc'[w].stored = gc[w].course_config
          /\ Stored(doc', gc[w].alias) = gc[w].course_config
          /\ \A b \in Courses \ {gc[w].alias} :
               Stored(doc', b) = gc[w].existing_config[b]]_vars

C14_Witness ==
  \E w1, w2 \in Workers :
    /\ w1 # w2
    /\ gc[w1].pc = "render" /\ gc[w1].stored # None /\ gc[w1].lost = {}
    /\ gc[w2].pc = "render" /\ gc[w2].stored # None
    /\ gc[w2].lost = {gc[w1].alias}
    /\ Stored(doc, gc[w1].alias) = None
    /\ Stored(doc, gc[w2].alias) = gc[w2].stored

\* The configurations workers created and saved during the batch.
StoredInBatch ==
  {<<e[1], e[2].stored>> : e \in {x \in Attempts : x[2].stored # None}}

\* C15: with the cache accesses serialized, no step of the batch changes
\* or removes a key the document holds (the keys present before the batch
\* included), and when the batch returns the document holds every
\* configuration a worker created and saved.
C15_SerializedKeeps ==
  /\ [](Done => \A e \in StoredInBatch : Stored(doc, e[1]) = e[2])
  /\ [][\A a \in Courses :
          Stored(doc, a) # None => Stored(doc', a) = Stored(doc, a)]_vars

C15_Witness ==
  /\ Done
  /\ \A a \in Courses :
       /\ Len(hist[a]) = 1
       /\ hist[a][1].stored # None
       /\ Stored(doc, a) = hist[a][1].stored

\* C16: when process_batch returns, the document holds every
\* configuration a worker created and saved during the batch.
C16_FinalHoldsStored ==
  Done => \A e \in StoredInBatch : Stored(doc, e[1]) = e[2]

\* C17: a missing icon-search credential aborts the run before any item
\* is dispatched, and no item that failed on it is dispatched again.
C17_CredentialFatal ==
  /\ ~api_key => \A a \in Courses : Dispatched(a) = 0
  /\ \A e \in Attempts :
       e[2].error = "no api key" =>
         /\ e[2] = hist[e[1]][Len(hist[e[1]])]
         /\ ~InFlight(e[1])

\* C18: the batch run ends with status zero exactly when no item is left
\* in the failure list.
C18_ExitReflectsFailures ==
  pb.pc = "exit" => (pb.exit = Some(0) <=> pb.all_failed = <<>>)

\* The course had its configuration, its icon and its cover before the
\* batch: a configuration of an earlier run is older than every
\* configuration of this one, and no step of a batch drops it.
StartedWithCover(a) == Stored(doc, a) = Some(OldConfig(a))

\* What attempt n of the item meets, from the catalog, the credential and
\* the stubs alone.
ExpectedOutcome(a, n) ==
  LET fetches == inp.course_info_map[a] = None
      metaFails == IF fetches THEN stub[a].meta ELSE 0 IN
  IF StartedWithCover(a) /\ ~inp.overwrite
  THEN [outcome |-> "SkippedExisting", error |-> ""]
  ELSE IF fetches /\ n <= metaFails
  THEN [outcome |-> "Failed", error |-> "catalog error"]
  ELSE IF fetches /\ catalog[a] = None
  THEN [outcome |-> "NotFound", error |-> ""]
  ELSE IF fetches /\ inp.lang \notin catalog[a][1]
  THEN [outcome |-> "SkippedUnsupportedLanguage", error |-> ""]
  ELSE IF ~api_key /\ ~StartedWithCover(a)
  THEN [outcome |-> "Failed", error |-> "no api key"]
  ELSE IF n <= metaFails + stub[a].render
  THEN [outcome |-> "Failed", error |-> "render error"]
  ELSE [outcome |-> "Rendered", error |-> ""]

\* The attempts, among those the retry bound allows, at which the item
\* succeeds.
SucceedsAt(a) ==
  {n \in 1..inp.max_retries :
     ExpectedOutcome(a, n).outcome \in SuccessOutcomes}

ExpectedSucceeded == {a \in Courses : SucceedsAt(a) # {}}

TriesOf(a) ==
  IF SucceedsAt(a) = {} THEN PassLimit
  ELSE CHOOSE n \in SucceedsAt(a) : \A m \in SucceedsAt(a) : n <= m

ExpectedPasses ==
  CHOOSE n \in {TriesOf(a) : a \in Courses} :
    \A a \in Courses : TriesOf(a) <= n

ExpectedFailed ==
  IF PassLimit = 0 THEN {}
  ELSE {<<a, ReasonOf(ExpectedOutcome(a, inp.max_retries))>> :
          a \in Courses \ ExpectedSucceeded}

\* C19: the outcome of every attempt of every item is fixed by the
\* catalog, the credential and the stubs, and whatever the order in which
\* the workers complete, process_batch returns the same succeeded items,
\* the same failed items with the same reasons, after the same number of
\* passes.
C19_OrderIndependent ==
  /\ \A e \in Attempts :
       \E i \in DOMAIN hist[e[1]] :
         /\ hist[e[1]][i] = e[2]
         /\ e[2].pass = i
         /\ [outcome |-> e[2].outcome, error |-> e[2].error]
              = ExpectedOutcome(e[1], i)
  /\ Done =>
       /\ Succeeded = ExpectedSucceeded
       /\ Range(pb.all_failed) = ExpectedFailed
       /\ Len(pb.all_failed) = Cardinality(ExpectedFailed)
       /\ pb.retry_count = ExpectedPasses

C19_Witness ==
  /\ Done
  /\ pb.retry_count = 2
  /\ Len(pb.all_failed) = 2
  /\ pb.all_failed[1][1] = "c2"
  /\ pb.all_failed[1][2] # pb.all_failed[2][2]

\* A batch of one course the catalog has (c1) and one it lacks (c2), one
\* pass allowed, no configuration, cover or icon to start with, and no
\* transient failure.
EndToEndCase ==
  /\ inp.max_retries = 1
  /\ api_key
  /\ catalog["c1"] = Some(AllLangs)
  /\ catalog["c2"] = None
  /\ \A a \in Courses : stub[a] = [meta |-> 0, render |-> 0]
  /\ ~StartedWithCover("c1")

\* C20: in that batch the existing course ends in the success list, the
\* absent course ends in the failure list with the reason "not found", and
\* the document gains exactly one key, that of the existing course.
C20_EndToEnd ==
  (Done /\ EndToEndCase) =>
    /\ Succeeded = {"c1"}
    /\ pb.all_failed = <<<<"c2", Some("not found")>>>>
    /\ {a \in Courses : Stored(doc, a) # None} = {"c1"}


(***************************************************************************)
(* The cache document and the icon store, one call after another.          *)
(***************************************************************************)
AfterCall(op) == cli.pc = "unit" /\ cli.op = op /\ cli.returned

Readable(d) == ~d.exists \/ d.valid

\* C21: in sequential use, after save_course_config(a, cfg) on a missing
\* or valid document, load_course_config(a) answers cfg and every other
\* key has the value it had before the call.
C21_SaveMerges ==
  (AfterCall("set") /\ Readable(cli.before.doc)) =>
     /\ doc.exists /\ doc.valid
     /\ load_course_config(cli.alias) = cli.arg
     /\ \A b \in Courses \ {cli.alias} :
          Stored(doc, b) = Stored(cli.before.doc, b)

C21_Witness ==
  /\ AfterCall("set")
  /\ cli.before.doc.exists /\ cli.before.doc.valid
  /\ \E b \in Courses \ {cli.alias} : Stored(doc, b) # None
  /\ Stored(cli.before.doc, cli.alias) # cli.arg
  /\ load_course_config(cli.alias) = cli.arg

\* C22: load_course_config never raises, and answers None for every
\* course when the document is missing or cannot be parsed (and the stored
\* value when the document is valid).
C22_LoadNeverRaises ==
  /\ cli.pc = "unit" /\ cli.op = "get" => gc["main"].pc # "raise"
  /\ AfterCall("get") =>
       /\ ~cli.raised
       /\ cli.result = Stored(cli.before.doc, cli.alias)
       /\ (~cli.before.doc.exists \/ ~cli.before.doc.valid) =>
             cli.result = None

C22_Witness ==
  /\ AfterCall("get")
  /\ cli.before.doc.exists /\ ~cli.before.doc.valid
  /\ cli.before.doc.data[cli.alias] # None
  /\ cli.result = None /\ ~cli.raised


\* The icon files of a course, among the files fs.
IconsOf(fs, a) == {x \in ImageExts : IconFile(a, x) \in fs}

\* C23: when an icon file of the course exists, download_image requests
\* nothing and returns the path of that file, whatever reference it is
\* given.
C23_Idempotent ==
  (AfterCall("download") /\ IconsOf(cli.before.icons, cli.alias) # {}) =>
     /\ ~cli.requested
     /\ \E x \in IconsOf(cli.before.icons, cli.alias) :
          cli.result = Some(IconPath(cli.alias, x))
     /\ icons = cli.before.icons


(***************************************************************************)
(* Runs of the command over what earlier runs left.                        *)
(***************************************************************************)
InCall == cli.pc \in {"call", "call_all"}

\* Nothing on disk, no request left to meet and no clock reading has
\* changed since the call started.
SameAsAtCall ==
  /\ doc = cli.snap.doc
  /\ covers = cli.snap.covers
  /\ icons = cli.snap.icons
  /\ clock = cli.snap.clock
  /\ metaLeft = cli.snap.metaLeft
  /\ renderLeft = cli.snap.renderLeft

\* C24: a generate_cover call for a course without configuration against
\* a corrupt document leaves the course's new configuration in the
\* document.
C24_CorruptAsEmpty ==
  (/\ InCall /\ Ended("main")
   /\ cli.snap.doc.exists /\ ~cli.snap.doc.valid
   /\ gc["main"].outcome = "Rendered") =>
     Stored(doc, gc["main"].alias) # None

\* C25: when the cover exists and overwrite is not requested, the call
\* ends SkippedExisting at once, with no catalog request, no access to the
\* document, no icon search, no download and no render, whatever the
\* catalog holds for the course.
C25_ExistingWins ==
  (/\ InCall
   /\ cli.snap.covers[<<gc["main"].lang, gc["main"].alias>>] # None
   /\ ~gc["main"].overwrite) =>
     /\ gc["main"].pc = "ret"
     /\ gc["main"].outcome = "SkippedExisting"
     /\ gc["main"].met = ""
     /\ gc["main"].stored = None
     /\ SameAsAtCall

C25_Witness ==
  /\ InCall /\ Ended("main")
  /\ cli.snap.covers[<<gc["main"].lang, gc["main"].alias>>] # None
  /\ ~gc["main"].overwrite
  /\ catalog[gc["main"].alias] = None
  /\ gc["main"].outcome = "SkippedExisting"


\* The course is in the catalog without the language.
Unsupported(a, l) == catalog[a] # None /\ l \notin catalog[a][1]

\* C26: a call that the catalog answers with 404, or for a language the
\* course does not have, ends NotFound or SkippedUnsupportedLanguage, and
\* a call that ends so has searched no icon, written no document and
\* rendered nothing: document, covers and icon files are as at its start.
C26_TerminalBeforeAssets ==
  (InCall /\ Ended("main")) =>
     LET f == gc["main"] IN
     /\ f.met = "404" => f.outcome = "NotFound"
     /\ (f.met \in {"200", "attr"} /\ Unsupported(f.alias, f.lang)) =>
           f.outcome = "SkippedUnsupportedLanguage"
     /\ f.outcome \in {"NotFound", "SkippedUnsupportedLanguage"} =>
           /\ f.pc = "ret"
           /\ f.stored = None
           /\ doc = cli.snap.doc
           /\ covers = cli.snap.covers
           /\ icons = cli.snap.icons
           /\ clock = cli.snap.clock
           /\ renderLeft = cli.snap.renderLeft

C26_Witness ==
  /\ InCall /\ Ended("main")
  /\ gc["main"].outcome = "SkippedUnsupportedLanguage"
  /\ gc["main"].met = "200"
  /\ ~cli.snap.doc.exists
  /\ doc = cli.snap.doc


(***************************************************************************)
(* The catalog request of a work item.                                     *)
(***************************************************************************)
\* The attempts of a course that ended with the catalog request failing.
CatalogErrors(a) ==
  {i \in DOMAIN hist[a] : hist[a][i].error = "catalog error"}

\* The workers whose call for the course met a failing catalog request
\* and has not returned to the pool yet.
MetError(a) == {w \in Workers : gc[w].alias = a /\ gc[w].met = "error"}

\* C27: a call makes one catalog request and does not retry it: each
\* failing request ends one call, which raises; process_course reports the
\* item as failed with the exception text; the item is tried again only in
\* the next pass, if there is one.
C27_OneRequestNoRetry ==
  /\ \A a \in Courses :
       /\ metaLeft[a] + Cardinality(CatalogErrors(a))
             + Cardinality(MetError(a)) = stub[a].meta
       /\ \A i \in CatalogErrors(a) :
            /\ hist[a][i].outcome = "Failed"
            /\ hist[a][i].pass = i
            /\ (Done /\ i < inp.max_retries) => Len(hist[a]) > i
            /\ (Done /\ i = Len(hist[a])) =>
                  <<a, Some("catalog error")>> \in Range(pb.all_failed)
  /\ \A w \in Workers :
       gc[w].met = "error" =>
          /\ gc[w].pc = "raise"
          /\ process_course(gc[w]) =
                <<gc[w].alias, FALSE, Some("catalog error")>>

C27_Witness ==
  /\ Done
  /\ stub["c1"].meta = 2 /\ inp.max_retries = 3
  /\ CatalogErrors("c1") = {1, 2}
  /\ hist["c1"][3].outcome = "Rendered"
  /\ metaLeft["c1"] = 0


\* C28: when the render fails in an attempt that created and saved a
\* configuration, the next attempt for the course creates none (it makes
\* no icon search) and, when it renders, renders with that configuration.
C28_StoredBeforeRender ==
  \A a \in Courses : \A i \in DOMAIN hist[a] :
    (/\ hist[a][i].error = "render error"
     /\ hist[a][i].stored # None
     /\ i < Len(hist[a])) =>
       /\ hist[a][i + 1].stored = None
       /\ (hist[a][i + 1].outcome = "Rendered" /\ i + 1 = Len(hist[a])
           /\ Done) =>
             /\ covers[<<inp.lang, a>>] # None
             /\ covers[<<inp.lang, a>>][1].image_url
                   = hist[a][i].stored[1].image_url
             /\ covers[<<inp.lang, a>>][1].bg_color
                   = hist[a][i].stored[1].bg_color


(***************************************************************************)
(* The cleanup of the sequential batch.                                    *)
(***************************************************************************)
\* C29: main changes the document only in its cleanup step, after the
\* loop has ended; the cleanup removes keys of invalid_courses and leaves
\* every other key with its value, and leaves the document as it is when
\* clean_invalid is off or invalid_courses is empty.
C29_CleanupOnlyDeletes ==
  [][/\ (sq.pc \in {"start", "loop", "done"}) => doc' = doc
     /\ sq.pc = "cleanup" =>
          /\ sq.todo = <<>>
          /\ \A a \in Courses :
               IF sq.clean_invalid /\ a \in sq.invalid_courses
               THEN Stored(doc', a) = None
               ELSE Stored(doc', a) = Stored(doc, a)
          /\ (~sq.clean_invalid \/ sq.invalid_courses = {}) => doc' = doc
          /\ doc'.exists = doc.exists /\ doc'.valid = doc.valid]_vars

C29_Witness ==
  /\ sq.pc = "done"
  /\ sq.clean_invalid /\ sq.invalid_courses = {"c1"}
  /\ sq.outcomes["c1"] = "NotFound"
  /\ Stored(doc, "c1") = None
  /\ Stored(doc, "c2") = Some(OldConfig("c2"))


(***************************************************************************)
(* The pool of a pass.                                                     *)
(***************************************************************************)
\* The workers inside process_course.
Busy == {w \in Workers : gc[w].pc # "idle"}

AttemptsIn(n) == {e \in Attempts : e[2].pass = n}

\* C30: at most inp.workers items are in process at a time, and passes do
\* not overlap: while no pool is open nothing is queued, in process or
\* uncollected and every attempt made belongs to a finished pass; while
\* the pool of a pass is open every result produced in it is collected or
\* waiting to be, and no attempt belongs to a later pass.
C30_PoolDiscipline ==
  /\ Cardinality(Busy) <= inp.workers
  /\ Busy \subseteq PoolWorkers(inp.workers)
  /\ \A e \in Attempts : e[2].pass <= PassesStarted
  /\ ~pool.open =>
       /\ Busy = {}
       /\ pool.queue = <<>> /\ pool.outq = <<>>
       /\ pb.collected = 0
  /\ pool.open =>
       /\ Cardinality(AttemptsIn(pb.retry_count + 1))
             = pb.collected + Len(pool.outq)
       /\ \A w \in Busy : gc[w].alias \in Range(pb.remaining_courses)
       /\ Len(pool.queue) + Cardinality(Busy)
             + Cardinality(AttemptsIn(pb.retry_count + 1))
             = Len(pb.remaining_courses)

C30_Witness ==
  /\ inp.workers = 1
  /\ pool.open /\ pb.retry_count = 1
  /\ Busy = {"w1"} /\ gc["w1"].pc = "render"
  /\ pool.queue = <<"c2">>
  /\ Len(hist["c1"]) = 1 /\ Len(hist["c2"]) = 1


(***************************************************************************)
(* Where the course information of a call comes from.                      *)
(***************************************************************************)
\* The answers of the catalog to a request made inside the call.
CatalogAnswers == {"200", "404", "error"}

\* C31: a call made in a retry pass works with course information the
\* catalog gave during that pass, not with the entry of course_info_map
\* built before the first pass.
C31_FreshPerPass ==
  \A w \in Workers :
    (pb.retry_count >= 1 /\ gc[w].met # "") => gc[w].met \in CatalogAnswers


\* C32: in all-languages mode no generate_cover call of the loop makes a
\* catalog request: the information fetched before the loop serves every
\* language.
C32_OneFetchForAllLanguages ==
  cli.pc = "call_all" => gc["main"].met \notin CatalogAnswers


\* C33: the course information a call takes from the function attribute
\* is that of the course of the call, also when an earlier call of the
\* same process left the attribute set.
C33_AttributeOwnCourse ==
  \A p \in Procs :
    /\ (gc[p].pc = "meta" /\ attr[p] # None) =>
          attr[p][1].name = gc[p].alias
    /\ gc[p].course_info # None => gc[p].course_info[1].name = gc[p].alias

C33_Witness ==
  /\ inp.workers = 1
  /\ Len(hist["c1"]) = 1 /\ hist["c1"][1].outcome = "SkippedExisting"
  /\ gc["w1"].alias = "c2" /\ gc["w1"].met = "attr"
  /\ gc["w1"].course_info = ListedInfo("c2", BatchLang)


(***************************************************************************)
(* process_batch without retries allowed.                                  *)
(***************************************************************************)
\* C34: with max_retries <= 0 process_batch starts no pass, dispatches no
\* item and returns two empty lists, whatever the input.
C34_NoPassWithoutRetries ==
  inp.max_retries <= 0 =>
    /\ ~pool.open /\ pb.retry_count = 0
    /\ \A a \in Courses : hist[a] = <<>>
    /\ \A w \in Workers : gc[w].pc = "idle"
    /\ pb.all_successful = <<>> /\ pb.all_failed = <<>>
    /\ clock = 1

C34_Witness ==
  /\ Done
  /\ inp.max_retries < 0
  /\ Len(inp.course_aliases) = 2
  /\ pb.all_successful = <<>> /\ pb.all_failed = <<>>


(***************************************************************************)
(* Configurations made from a default reference.                           *)
(***************************************************************************)
Defaults == {DefaultEmpty, DefaultExhausted}

\* The call has made a configuration from a default reference and is
\* past its save.
MadeFromDefault(f) ==
  /\ f.pc = "render"
  /\ f.resolver # None
  /\ f.freepik_url \in Defaults

\* C35: a configuration made from a default reference is in the document
\* once the save is over, and a call searches an icon only when the
\* document it started from had no configuration for the course, whatever
\* the icon search would answer by then.
C35_FallbackCached ==
  InCall =>
    LET f == gc["main"] IN
    /\ MadeFromDefault(f) => Stored(doc, f.alias) = f.course_config
    /\ f.resolver # None => Stored(cli.snap.doc, f.alias) = None


\* C36: a worker's load_course_config, creating the empty document after
\* it found none, leaves every configuration in the document as it is.
C36_LoadKeepsKeys ==
  [][\A w \in Workers :
       (gc[w].pc = "load_mk" /\ gc'[w].pc # "load_mk") =>
         \A b \in Courses :
           Stored(doc, b) # None => Stored(doc', b) = Stored(doc, b)]_vars

=============================================================================
